---- MODULE Spec2Model ----
(***************************************************************************)
(* Model of transwarp/db.py: the engine, the lazy connection, the          *)
(* thread-local context _db_ctx and the two context managers _Connection   *)
(* (connection scope) and _TransactionCtx (transaction scope).             *)
(*                                                                         *)
(* _db_ctx is a threading.local: every field of it is a function of the    *)
(* thread.  The with-statements a thread is inside are kept as a stack of  *)
(* the context-manager objects, each with the flag its __enter__ set.      *)
(* The driver (factory, cursor, commit, rollback, close) is external: each *)
(* of its calls may fail, which is an input of the action making the call. *)
(***************************************************************************)
EXTENDS Integers, Sequences, FiniteSets

\* ---------------------------------------------------------------- bounds
MaxNest == 3   \* with-statements a thread may be inside at once
MaxLazy == 3   \* _LazyConnection objects created over a run
MaxConn == 2   \* raw connections the factory returns over a run
ThreadNest == 1   \* MaxNest when two threads run
ThreadLazy == 2   \* MaxLazy when two threads run
ThreadConn == 2   \* MaxConn when two threads run

\* ----------------------------------------------------------------- state
VARIABLES
    engine,        \* the module global engine: "None" or the db type it was built for
    connection,    \* connection[t]: _db_ctx.connection, 0 (None) or the id of a _LazyConnection
    transactions,  \* transactions[t]: _db_ctx.transactions
    lazy,          \* lazy[t]: _db_ctx.connection.connection, 0 (None) or the id of a raw connection
    stack,         \* stack[t]: the context managers thread t is inside, innermost last
    nlazy,         \* number of _LazyConnection objects created so far
    conns,         \* conns[id]: the raw connection id: the thread it was made for, its close() calls
    last           \* last[t]: the last operation of thread t, what it called and what its caller saw

vars == <<engine, connection, transactions, lazy, stack, nlazy, conns, last>>

Threads == {"main"}

\* op: the operation; pre: the thread's _db_ctx when it began; exc: the outcome
\* of the enclosed work handed to __exit__; flag: the scope's should_cleanup or
\* should_close_conn; raised: what the caller sees; calls: the driver calls made
NoOp ==
    [op |-> "none", pre |-> [connection |-> 0, transactions |-> 0, lazy |-> 0],
     exc |-> "None", flag |-> FALSE, raised |-> "None", calls |-> <<>>]

Init ==
    /\ engine = "None"
    /\ connection = [t \in Threads |-> 0]
    /\ transactions = [t \in Threads |-> 0]
    /\ lazy = [t \in Threads |-> 0]
    /\ stack = [t \in Threads |-> <<>>]
    /\ nlazy = 0
    /\ conns = <<>>
    /\ last = [t \in Threads |-> NoOp]

\* --------------------------------------------------------------- engine
DbTypes == {"postgres", "mysql", "other"}

\* DBError is defined with def, not class: DBError('...') returns None and
\* raising None is a TypeError.  Only db_type 'postgres' assigns engine.
create_engine(eng, db_type) ==
    IF eng # "None"
    THEN [engine |-> eng, err |-> "TypeError"]
    ELSE IF db_type = "postgres"
         THEN [engine |-> "postgres", err |-> "None"]
         ELSE [engine |-> eng, err |-> "None"]

\* ------------------------------------------------------ _LazyConnection
\* Each operator gives the error the call raises ("None" when it returns)
\* and the calls it made on the driver, in order, each with whether it
\* returned.  rawc is self.connection: 0 for None, else the id of the raw
\* connection.
Call(name, fails) == [call |-> name, ok |-> ~fails]

\* LazyConnection_cursor without the test of self.connection: every call connects
LazyConnection_cursor_Reconnect(rawc, eng, fresh, connectFails, cursorFails) ==
    IF eng = "None"
    THEN [lazy |-> rawc, err |-> "AttributeError", calls |-> <<>>]
    ELSE IF connectFails
         THEN [lazy |-> rawc, err |-> "ConnectError", calls |-> <<Call("connect", TRUE)>>]
         ELSE [lazy |-> fresh,
               err |-> IF cursorFails THEN "CursorError" ELSE "None",
               calls |-> <<Call("connect", FALSE), Call("cursor", cursorFails)>>]

\* LazyConnection_cursor swallowing the factory's failure: the call goes on
\* to self.connection.cursor() with self.connection None
LazyConnection_cursor_SwallowConnect(rawc, eng, fresh, connectFails, cursorFails) ==
    IF rawc = 0
    THEN IF eng = "None"
         THEN [lazy |-> 0, err |-> "AttributeError", calls |-> <<>>]
         ELSE IF connectFails
              THEN [lazy |-> 0, err |-> "AttributeError", calls |-> <<Call("connect", TRUE)>>]
              ELSE [lazy |-> fresh,
                    err |-> IF cursorFails THEN "CursorError" ELSE "None",
                    calls |-> <<Call("connect", FALSE), Call("cursor", cursorFails)>>]
    ELSE [lazy |-> rawc,
          err |-> IF cursorFails THEN "CursorError" ELSE "None",
          calls |-> <<Call("cursor", cursorFails)>>]

\* fresh is the raw connection a successful factory call returns
LazyConnection_cursor(rawc, eng, fresh, connectFails, cursorFails) ==
    IF rawc = 0
    THEN IF eng = "None"
         THEN [lazy |-> 0, err |-> "AttributeError", calls |-> <<>>]
         ELSE IF connectFails
              THEN [lazy |-> 0, err |-> "ConnectError", calls |-> <<Call("connect", TRUE)>>]
              ELSE [lazy |-> fresh,
                    err |-> IF cursorFails THEN "CursorError" ELSE "None",
                    calls |-> <<Call("connect", FALSE), Call("cursor", cursorFails)>>]
    ELSE [lazy |-> rawc,
          err |-> IF cursorFails THEN "CursorError" ELSE "None",
          calls |-> <<Call("cursor", cursorFails)>>]

LazyConnection_commit(rawc, commitFails) ==
    IF rawc = 0
    THEN [err |-> "AttributeError", calls |-> <<>>]
    ELSE [err |-> IF commitFails THEN "CommitError" ELSE "None", calls |-> <<Call("commit", commitFails)>>]

LazyConnection_rollback(rawc, rollbackFails) ==
    IF rawc = 0
    THEN [err |-> "AttributeError", calls |-> <<>>]
    ELSE [err |-> IF rollbackFails THEN "RollbackError" ELSE "None", calls |-> <<Call("rollback", rollbackFails)>>]

\* cleanup that drops the raw connection without calling close()
LazyConnection_cleanup_Drop(rawc, closeFails) ==
    [lazy |-> 0, err |-> "None", calls |-> <<>>]

\* self.connection is set to None before close() is called
LazyConnection_cleanup(rawc, closeFails) ==
    IF rawc # 0
    THEN [lazy |-> 0, err |-> IF closeFails THEN "CloseError" ELSE "None", calls |-> <<Call("close", closeFails)>>]
    ELSE [lazy |-> 0, err |-> "None", calls |-> <<>>]

\* --------------------------------------------------------------- _DbCtx
\* c is the thread's _db_ctx: [connection, transactions, lazy], lazy being
\* the connection field of the _LazyConnection c.connection refers to.
Ctx(t) == [connection |-> connection[t], transactions |-> transactions[t], lazy |-> lazy[t]]

is_init(c) == c.connection # 0

\* DbCtx_init connecting at once instead of lazily
DbCtx_init_Eager(c, fresh) == [connection |-> fresh, transactions |-> 0, lazy |-> 1]

\* fresh is the identity of the new _LazyConnection
DbCtx_init(c, fresh) == [connection |-> fresh, transactions |-> 0, lazy |-> 0]

\* self.connection = None is skipped when the lazy connection's cleanup raises
DbCtx_cleanup(c, closeFails) ==
    IF c.connection = 0
    THEN [ctx |-> c, err |-> "AttributeError", calls |-> <<>>]
    ELSE LET r == LazyConnection_cleanup(c.lazy, closeFails)
         IN  [ctx |-> [c EXCEPT !.lazy = r.lazy,
                                !.connection = IF r.err = "None" THEN 0 ELSE @],
              err |-> r.err, calls |-> r.calls]

DbCtx_cursor(c, eng, fresh, connectFails, cursorFails) ==
    IF c.connection = 0
    THEN [ctx |-> c, err |-> "AttributeError", calls |-> <<>>]
    ELSE LET r == LazyConnection_cursor(c.lazy, eng, fresh, connectFails, cursorFails)
         IN  [ctx |-> [c EXCEPT !.lazy = r.lazy], err |-> r.err, calls |-> r.calls]

\* ---------------------------------------------------------- _Connection
\* Connection_enter initializing the context whether or not it is initialized
Connection_enter_Reinit(c, fresh) ==
    [ctx |-> DbCtx_init(c, fresh), flag |-> ~is_init(c)]

Connection_enter(c, fresh) ==
    IF ~is_init(c)
    THEN [ctx |-> DbCtx_init(c, fresh), flag |-> TRUE]
    ELSE [ctx |-> c, flag |-> FALSE]

\* the body of the if is the expression _db_ctx.cleanup, which calls nothing
Connection_exit(c, should_cleanup) ==
    [ctx |-> c, err |-> "None", calls |-> <<>>]

\* ------------------------------------------------------ _TransactionCtx
Transaction_enter(c, fresh) ==
    LET i == IF ~is_init(c) THEN DbCtx_init(c, fresh) ELSE c
    IN  [ctx |-> [i EXCEPT !.transactions = @ + 1], flag |-> ~is_init(c)]

\* the bare except catches the commit failure, rolls back and does not re-raise
Transaction_commit(c, commitFails, rollbackFails) ==
    IF c.connection = 0
    THEN [err |-> "AttributeError", calls |-> <<>>]
    ELSE LET r == LazyConnection_commit(c.lazy, commitFails)
         IN  IF r.err = "None"
             THEN r
             ELSE LET b == LazyConnection_rollback(c.lazy, rollbackFails)
                  IN  [err |-> b.err, calls |-> r.calls \o b.calls]

Transaction_rollback(c, rollbackFails) ==
    IF c.connection = 0
    THEN [err |-> "AttributeError", calls |-> <<>>]
    ELSE LazyConnection_rollback(c.lazy, rollbackFails)

\* Transaction_exit releasing the connection before it finalizes the transaction
Transaction_exit_CloseFirst(c, should_close_conn, exctype, commitFails, rollbackFails, closeFails) ==
    LET d == [c EXCEPT !.transactions = @ - 1]
        k == IF should_close_conn
             THEN DbCtx_cleanup(d, closeFails)
             ELSE [ctx |-> d, err |-> "None", calls |-> <<>>]
        f == IF d.transactions = 0
             THEN IF exctype = "None"
                  THEN Transaction_commit(d, commitFails, rollbackFails)
                  ELSE Transaction_rollback(d, rollbackFails)
             ELSE [err |-> "None", calls |-> <<>>]
    IN  [ctx |-> k.ctx,
         err |-> IF f.err # "None" THEN f.err ELSE k.err,
         calls |-> k.calls \o f.calls]

\* Transaction_exit cleaning up whether or not this scope opened the connection
Transaction_exit_AlwaysCleanup(c, should_close_conn, exctype, commitFails, rollbackFails, closeFails) ==
    LET d == [c EXCEPT !.transactions = @ - 1]
        f == IF d.transactions = 0
             THEN IF exctype = "None"
                  THEN Transaction_commit(d, commitFails, rollbackFails)
                  ELSE Transaction_rollback(d, rollbackFails)
             ELSE [err |-> "None", calls |-> <<>>]
        k == DbCtx_cleanup(d, closeFails)
    IN  [ctx |-> k.ctx,
         err |-> IF k.err # "None" THEN k.err ELSE f.err,
         calls |-> f.calls \o k.calls]

\* Transaction_exit with the depth test left out: every exit finalizes
Transaction_exit_AnyDepth(c, should_close_conn, exctype, commitFails, rollbackFails, closeFails) ==
    LET d == [c EXCEPT !.transactions = @ - 1]
        f == IF exctype = "None"
             THEN Transaction_commit(d, commitFails, rollbackFails)
             ELSE Transaction_rollback(d, rollbackFails)
        k == IF should_close_conn
             THEN DbCtx_cleanup(d, closeFails)
             ELSE [ctx |-> d, err |-> "None", calls |-> <<>>]
    IN  [ctx |-> k.ctx,
         err |-> IF k.err # "None" THEN k.err ELSE f.err,
         calls |-> f.calls \o k.calls]

\* Transaction_exit setting the depth to 0 instead of decrementing it
Transaction_exit_ResetDepth(c, should_close_conn, exctype, commitFails, rollbackFails, closeFails) ==
    LET d == [c EXCEPT !.transactions = 0]
        f == IF exctype = "None"
             THEN Transaction_commit(d, commitFails, rollbackFails)
             ELSE Transaction_rollback(d, rollbackFails)
        k == IF should_close_conn
             THEN DbCtx_cleanup(d, closeFails)
             ELSE [ctx |-> d, err |-> "None", calls |-> <<>>]
    IN  [ctx |-> k.ctx,
         err |-> IF k.err # "None" THEN k.err ELSE f.err,
         calls |-> f.calls \o k.calls]

\* try: commit or rollback at depth 0; finally: cleanup if this scope owns
\* the connection.  An error raised in the finally block replaces the one
\* in flight; __exit__ returns None, so exctype propagates otherwise.
Transaction_exit(c, should_close_conn, exctype, commitFails, rollbackFails, closeFails) ==
    LET d == [c EXCEPT !.transactions = @ - 1]
        f == IF d.transactions = 0
             THEN IF exctype = "None"
                  THEN Transaction_commit(d, commitFails, rollbackFails)
                  ELSE Transaction_rollback(d, rollbackFails)
             ELSE [err |-> "None", calls |-> <<>>]
        k == IF should_close_conn
             THEN DbCtx_cleanup(d, closeFails)
             ELSE [ctx |-> d, err |-> "None", calls |-> <<>>]
    IN  [ctx |-> k.ctx,
         err |-> IF k.err # "None" THEN k.err ELSE f.err,
         calls |-> f.calls \o k.calls]

\* -------------------------------------------------------------- _update
\* update without the test of _db_ctx.transactions: it commits at every depth
update_AlwaysCommit(c, eng, freshLazy, freshRaw, connectFails, cursorFails, executeFails, commitFails) ==
    LET e == Connection_enter(c, freshLazy)
        k == LazyConnection_cursor(e.ctx.lazy, eng, freshRaw, connectFails, cursorFails)
        d == [e.ctx EXCEPT !.lazy = k.lazy]
        x == <<Call("execute", executeFails)>>
        m == LazyConnection_commit(d.lazy, commitFails)
        b == IF k.err # "None" THEN [err |-> k.err, calls |-> k.calls]
             ELSE IF executeFails
                  THEN [err |-> "ExecuteError", calls |-> k.calls \o x \o <<Call("cursor_close", FALSE)>>]
                  ELSE [err |-> m.err, calls |-> k.calls \o x \o m.calls \o <<Call("cursor_close", FALSE)>>]
        q == Connection_exit(d, e.flag)
    IN  [ctx |-> q.ctx, flag |-> e.flag, err |-> IF q.err # "None" THEN q.err ELSE b.err, calls |-> b.calls \o q.calls]

\* _update is wrapped by with_connection: enter a connection scope, take a
\* cursor from the lazy connection, execute, commit when no transaction is
\* open, close the cursor in the finally block, leave the scope.  An error
\* of cursor(), execute() or commit() propagates through finally and
\* __exit__; cursor.close() is taken to return.
update(c, eng, freshLazy, freshRaw, connectFails, cursorFails, executeFails, commitFails) ==
    LET e == Connection_enter(c, freshLazy)
        k == LazyConnection_cursor(e.ctx.lazy, eng, freshRaw, connectFails, cursorFails)
        d == [e.ctx EXCEPT !.lazy = k.lazy]
        x == <<Call("execute", executeFails)>>
        m == IF d.transactions = 0
             THEN LazyConnection_commit(d.lazy, commitFails)
             ELSE [err |-> "None", calls |-> <<>>]
        b == IF k.err # "None" THEN [err |-> k.err, calls |-> k.calls]
             ELSE IF executeFails
                  THEN [err |-> "ExecuteError", calls |-> k.calls \o x \o <<Call("cursor_close", FALSE)>>]
                  ELSE [err |-> m.err, calls |-> k.calls \o x \o m.calls \o <<Call("cursor_close", FALSE)>>]
        q == Connection_exit(d, e.flag)
    IN  [ctx |-> q.ctx, flag |-> e.flag, err |-> IF q.err # "None" THEN q.err ELSE b.err, calls |-> b.calls \o q.calls]

\* -------------------------------------------------------------- actions
Top(t) == stack[t][Len(stack[t])]

Pop(t) == SubSeq(stack[t], 1, Len(stack[t]) - 1)

\* what the caller of a scope exit sees: the error __exit__ raised, else
\* the error of the enclosed work
Observed(err, exctype) == IF err # "None" THEN err ELSE exctype

\* _db_ctx as a plain object instead of a threading.local: one connection
\* and one depth for every thread
SetCtx_Shared(t, c) ==
    /\ connection' = [u \in DOMAIN connection |-> c.connection]
    /\ transactions' = [u \in DOMAIN transactions |-> c.transactions]
    /\ lazy' = [u \in DOMAIN lazy |-> c.lazy]

SetCtx(t, c) ==
    /\ connection' = [connection EXCEPT ![t] = c.connection]
    /\ transactions' = [transactions EXCEPT ![t] = c.transactions]
    /\ lazy' = [lazy EXCEPT ![t] = c.lazy]

\* the raw connection of thread t receives the close() calls among calls
Closes(t, calls) ==
    IF \E i \in 1..Len(calls) : calls[i].call = "close"
    THEN [conns EXCEPT ![lazy[t]].closes = @ + 1]
    ELSE conns

\* a failure is an input only of an operation that makes the call: fails is
\* taken FALSE when the call name is not among calls
Input(calls, name, fails) ==
    fails => \E i \in 1..Len(calls) : calls[i].call = name /\ ~calls[i].ok

CreateEngine(t, db_type) ==
    LET r == create_engine(engine, db_type)
    IN  /\ engine' = r.engine
        /\ last' = [last EXCEPT ![t] = [op |-> "create_engine", pre |-> Ctx(t), exc |-> "None", flag |-> FALSE,
                                        raised |-> r.err, calls |-> <<>>]]
        /\ UNCHANGED <<connection, transactions, lazy, stack, nlazy, conns>>

ConnEnter(t) ==
    /\ Len(stack[t]) < MaxNest
    /\ is_init(Ctx(t)) \/ nlazy < MaxLazy
    /\ LET r == Connection_enter(Ctx(t), nlazy + 1)
       IN  /\ SetCtx(t, r.ctx)
           /\ nlazy' = IF r.ctx.connection = nlazy + 1 THEN nlazy + 1 ELSE nlazy
           /\ stack' = [stack EXCEPT ![t] = Append(@, [kind |-> "connection", flag |-> r.flag])]
           /\ last' = [last EXCEPT ![t] = [op |-> "connection_enter", pre |-> Ctx(t), exc |-> "None",
                                           flag |-> r.flag, raised |-> "None", calls |-> <<>>]]
    /\ UNCHANGED <<engine, conns>>

ConnExit(t, exctype) ==
    /\ stack[t] # <<>>
    /\ Top(t).kind = "connection"
    /\ LET r == Connection_exit(Ctx(t), Top(t).flag)
       IN  /\ SetCtx(t, r.ctx)
           /\ conns' = Closes(t, r.calls)
           /\ last' = [last EXCEPT ![t] = [op |-> "connection_exit", pre |-> Ctx(t), exc |-> exctype,
                                           flag |-> Top(t).flag,
                                           raised |-> Observed(r.err, exctype), calls |-> r.calls]]
    /\ stack' = [stack EXCEPT ![t] = Pop(t)]
    /\ UNCHANGED <<engine, nlazy>>

TxEnter(t) ==
    /\ Len(stack[t]) < MaxNest
    /\ is_init(Ctx(t)) \/ nlazy < MaxLazy
    /\ LET r == Transaction_enter(Ctx(t), nlazy + 1)
       IN  /\ SetCtx(t, r.ctx)
           /\ nlazy' = IF r.ctx.connection = nlazy + 1 THEN nlazy + 1 ELSE nlazy
           /\ stack' = [stack EXCEPT ![t] = Append(@, [kind |-> "transaction", flag |-> r.flag])]
           /\ last' = [last EXCEPT ![t] = [op |-> "transaction_enter", pre |-> Ctx(t), exc |-> "None",
                                           flag |-> r.flag, raised |-> "None", calls |-> <<>>]]
    /\ UNCHANGED <<engine, conns>>

TxExit(t, exctype, commitFails, rollbackFails, closeFails) ==
    /\ stack[t] # <<>>
    /\ Top(t).kind = "transaction"
    /\ LET r == Transaction_exit(Ctx(t), Top(t).flag, exctype,
                                 commitFails, rollbackFails, closeFails)
       IN  /\ SetCtx(t, r.ctx)
           /\ conns' = Closes(t, r.calls)
           /\ last' = [last EXCEPT ![t] = [op |-> "transaction_exit", pre |-> Ctx(t), exc |-> exctype,
                                           flag |-> Top(t).flag,
                                           raised |-> Observed(r.err, exctype), calls |-> r.calls]]
           /\ Input(r.calls, "commit", commitFails)
           /\ Input(r.calls, "rollback", rollbackFails)
           /\ Input(r.calls, "close", closeFails)
    /\ stack' = [stack EXCEPT ![t] = Pop(t)]
    /\ UNCHANGED <<engine, nlazy>>

Cursor(t, connectFails, cursorFails) ==
    /\ LET r == DbCtx_cursor(Ctx(t), engine, Len(conns) + 1, connectFails, cursorFails)
       IN  /\ r.ctx.lazy = Len(conns) + 1 => Len(conns) < MaxConn
           /\ SetCtx(t, r.ctx)
           /\ conns' = IF r.ctx.lazy = Len(conns) + 1
                       THEN Append(conns, [owner |-> t, closes |-> 0])
                       ELSE conns
           /\ last' = [last EXCEPT ![t] = [op |-> "cursor", pre |-> Ctx(t), exc |-> "None", flag |-> FALSE,
                                           raised |-> r.err, calls |-> r.calls]]
           /\ Input(r.calls, "connect", connectFails)
           /\ Input(r.calls, "cursor", cursorFails)
    /\ UNCHANGED <<engine, stack, nlazy>>

Update(t, connectFails, cursorFails, executeFails, commitFails) ==
    /\ is_init(Ctx(t)) \/ nlazy < MaxLazy
    /\ LET r == update(Ctx(t), engine, nlazy + 1, Len(conns) + 1,
                       connectFails, cursorFails, executeFails, commitFails)
       IN  /\ r.ctx.lazy = Len(conns) + 1 => Len(conns) < MaxConn
           /\ SetCtx(t, r.ctx)
           /\ nlazy' = IF r.ctx.connection = nlazy + 1 THEN nlazy + 1 ELSE nlazy
           /\ conns' = IF r.ctx.lazy = Len(conns) + 1
                       THEN Append(conns, [owner |-> t, closes |-> 0])
                       ELSE conns
           /\ last' = [last EXCEPT ![t] = [op |-> "update", pre |-> Ctx(t), exc |-> "None",
                                           flag |-> r.flag, raised |-> r.err, calls |-> r.calls]]
           /\ Input(r.calls, "connect", connectFails)
           /\ Input(r.calls, "cursor", cursorFails)
           /\ Input(r.calls, "execute", executeFails)
           /\ Input(r.calls, "commit", commitFails)
    /\ UNCHANGED <<engine, stack>>

\* the driver's failures and the outcome of the enclosed work are inputs
Outcomes == {"None", "E"}

create_engine_call == \E t \in DOMAIN stack, db_type \in DbTypes : CreateEngine(t, db_type)

connection_enter == \E t \in DOMAIN stack : ConnEnter(t)

connection_exit == \E t \in DOMAIN stack, exctype \in Outcomes : ConnExit(t, exctype)

transaction_enter == \E t \in DOMAIN stack : TxEnter(t)

transaction_exit ==
    \E t \in DOMAIN stack, exctype \in Outcomes,
       commitFails \in BOOLEAN, rollbackFails \in BOOLEAN, closeFails \in BOOLEAN :
        TxExit(t, exctype, commitFails, rollbackFails, closeFails)

cursor_call ==
    \E t \in DOMAIN stack, connectFails \in BOOLEAN, cursorFails \in BOOLEAN :
        Cursor(t, connectFails, cursorFails)

update_call ==
    \E t \in DOMAIN stack, connectFails \in BOOLEAN, cursorFails \in BOOLEAN,
       executeFails \in BOOLEAN, commitFails \in BOOLEAN :
        Update(t, connectFails, cursorFails, executeFails, commitFails)

Next ==
    \/ create_engine_call
    \/ connection_enter
    \/ connection_exit
    \/ transaction_enter
    \/ transaction_exit
    \/ cursor_call
    \/ update_call

Spec == Init /\ [][Next]_vars

\* ------------------------------------------- cleanup called by hand
\* _db_ctx.cleanup() and _db_ctx.connection.cleanup() called directly, outside
\* the context managers; the second needs a _LazyConnection to be called on.
CleanupCall(t, closeFails) ==
    LET r == DbCtx_cleanup(Ctx(t), closeFails)
    IN  /\ SetCtx(t, r.ctx)
        /\ conns' = Closes(t, r.calls)
        /\ last' = [last EXCEPT ![t] = [op |-> "cleanup", pre |-> Ctx(t), exc |-> "None", flag |-> FALSE,
                                        raised |-> r.err, calls |-> r.calls]]
        /\ UNCHANGED <<engine, stack, nlazy>>

LazyCleanupCall(t, closeFails) ==
    /\ connection[t] # 0
    /\ LET r == LazyConnection_cleanup(lazy[t], closeFails)
       IN  /\ SetCtx(t, [Ctx(t) EXCEPT !.lazy = r.lazy])
           /\ conns' = Closes(t, r.calls)
           /\ last' = [last EXCEPT ![t] = [op |-> "lazy_cleanup", pre |-> Ctx(t), exc |-> "None",
                                           flag |-> FALSE, raised |-> r.err, calls |-> r.calls]]
    /\ UNCHANGED <<engine, stack, nlazy>>

cleanup_call == \E t \in DOMAIN stack, closeFails \in BOOLEAN : CleanupCall(t, closeFails)

lazy_cleanup_call == \E t \in DOMAIN stack, closeFails \in BOOLEAN : LazyCleanupCall(t, closeFails)

NextDirect ==
    \/ Next
    \/ cleanup_call
    \/ lazy_cleanup_call

\* the scopes together with cleanup calls made by hand
SpecDirect == Init /\ [][NextDirect]_vars

\* ------------------------------------------------------- two threads
\* _db_ctx is a threading.local: a second thread gets its own connection
\* and transactions from _DbCtx.__init__.  The engine is created at startup,
\* before the threads run.
WorkerThreads == {"t1", "t2"}

InitThreads ==
    /\ engine = "postgres"
    /\ connection = [t \in WorkerThreads |-> 0]
    /\ transactions = [t \in WorkerThreads |-> 0]
    /\ lazy = [t \in WorkerThreads |-> 0]
    /\ stack = [t \in WorkerThreads |-> <<>>]
    /\ nlazy = 0
    /\ conns = <<>>
    /\ last = [t \in WorkerThreads |-> NoOp]

\* the caps keep the product of the two threads' states small
WithinThreadBounds ==
    /\ \A t \in DOMAIN stack : Len(stack'[t]) <= ThreadNest
    /\ nlazy' <= ThreadLazy
    /\ Len(conns') <= ThreadConn

\* each thread opens and leaves transaction scopes and requests cursors
NextThreads ==
    \/ transaction_enter /\ WithinThreadBounds
    \/ transaction_exit /\ WithinThreadBounds
    \/ cursor_call /\ WithinThreadBounds

\* any interleaving of the operations of the two threads
SpecThreads == InitThreads /\ [][NextThreads]_vars

\* =============================================================== claims
\* What the properties below read off the last operation of a thread.
IsFinalization(c) == c.call \in {"commit", "rollback"}

Finalization(calls) == SelectSeq(calls, IsFinalization)

Names(calls) == [i \in 1..Len(calls) |-> calls[i].call]

Called(calls, name) == \E i \in 1..Len(calls) : calls[i].call = name

Failed(calls, name) == \E i \in 1..Len(calls) : calls[i].call = name /\ ~calls[i].ok

\* the last operation of t was the exit of a transaction scope at depth n
TxExited(t, n) == last[t].op = "transaction_exit" /\ last[t].pre.transactions = n

\* C1 as stated: the exit of the outermost transaction scope makes exactly
\* one call on the open raw connection, commit when the enclosed work
\* succeeded and rollback when it failed, and the exit of an inner scope
\* makes neither call.
C1_OneFinalization ==
    \A t \in DOMAIN last :
        last[t].op = "transaction_exit" =>
            LET fin == Names(Finalization(last[t].calls))
            IN  IF last[t].pre.transactions = 1
                THEN last[t].pre.lazy # 0 =>
                         fin = IF last[t].exc = "None" THEN <<"commit">> ELSE <<"rollback">>
                ELSE fin = <<>>

\* C1 amended: at the exit of the outermost transaction scope an open raw
\* connection receives one commit when the work succeeded, followed by one
\* rollback exactly when that commit fails, and one rollback and no commit
\* when the work failed; with no raw connection opened no commit or rollback
\* reaches the driver; the exit of an inner scope, and every other operation
\* made inside a transaction, makes neither call.
C1_FinalizationAtOutermost ==
    \A t \in DOMAIN last :
        LET l == last[t]
            fin == Finalization(l.calls)
        IN  /\ l.op = "transaction_exit" /\ l.pre.transactions = 1 /\ l.pre.lazy # 0 =>
                IF l.exc = "None"
                THEN /\ Len(fin) >= 1
                     /\ fin[1].call = "commit"
                     /\ IF fin[1].ok THEN Len(fin) = 1
                                     ELSE Len(fin) = 2 /\ fin[2].call = "rollback"
                ELSE Names(fin) = <<"rollback">>
            /\ l.op = "transaction_exit" /\ l.pre.transactions = 1 /\ l.pre.lazy = 0 =>
                l.calls = <<>>
            /\ l.op = "transaction_exit" /\ l.pre.transactions # 1 => fin = <<>>
            /\ l.op # "transaction_exit" /\ transactions[t] > 0 => fin = <<>>

\* C1 witness: an outermost exit after successful work whose commit failed
\* and was followed by the recovery rollback
C1_Witness ==
    \E t \in DOMAIN last :
        /\ TxExited(t, 1)
        /\ last[t].exc = "None"
        /\ Names(Finalization(last[t].calls)) = <<"commit", "rollback">>

\* C2: when the work inside an outermost transaction scope fails with E (and
\* the close that follows does not fail), rollback is called on the open raw
\* connection and the caller sees E, also when that rollback fails.
C2_OriginalErrorObserved ==
    \A t \in DOMAIN last :
        (/\ TxExited(t, 1)
         /\ last[t].exc = "E"
         /\ last[t].pre.lazy # 0
         /\ ~Failed(last[t].calls, "close")) =>
            /\ Called(last[t].calls, "rollback")
            /\ last[t].raised = "E"

\* C3: when the commit of an outermost transaction scope fails, a rollback is
\* attempted and the caller sees the commit failure, whatever the rollback does.
C3_CommitFailureObserved ==
    \A t \in DOMAIN last :
        (/\ TxExited(t, 1)
         /\ last[t].exc = "None"
         /\ Failed(last[t].calls, "commit")
         /\ ~Failed(last[t].calls, "close")) =>
            /\ Called(last[t].calls, "rollback")
            /\ last[t].raised = "CommitError"

\* C4: after the exit of a connection scope that initialized the context, the
\* context is uninitialized and the raw connection opened inside it has been
\* closed exactly once.
C4_ConnectionScopeTearsDown ==
    \A t \in DOMAIN last :
        (last[t].op = "connection_exit" /\ last[t].flag) =>
            /\ connection[t] = 0
            /\ last[t].pre.lazy # 0 => conns[last[t].pre.lazy].closes = 1

\* C5: a connection scope entered while the context is initialized leaves the
\* context's _LazyConnection, its raw connection and the transaction depth as
\* they were, on its enter and on its exit, and calls nothing on the driver.
C5_NestedConnectionScopeIsNoOp ==
    \A t \in DOMAIN last :
        LET l == last[t]
        IN  /\ (l.op = "connection_enter" /\ is_init(l.pre)) =>
                   Ctx(t) = l.pre /\ l.calls = <<>> /\ ~l.flag
            /\ (l.op = "connection_exit" /\ ~l.flag) =>
                   Ctx(t) = l.pre /\ l.calls = <<>>

\* C5 witness: a nested connection scope has exited inside a transaction
\* with a raw connection open
C5_Witness ==
    \E t \in DOMAIN last :
        /\ last[t].op = "connection_exit"
        /\ ~last[t].flag
        /\ transactions[t] > 0
        /\ lazy[t] # 0

IsConnect(c) == c.call = "connect"

Connects(calls) == Len(SelectSeq(calls, IsConnect))

\* C6: a cursor() call that finds no raw connection invokes the factory at
\* most once, exactly once when it connects or returns a cursor, and then
\* holds a new, open raw connection; a cursor() call that finds a raw
\* connection invokes the factory zero times and keeps that connection; no
\* operation replaces a raw connection by another one, it only closes it.
C6_OneFactoryCall ==
    \A t \in DOMAIN last :
        LET l == last[t]
        IN  /\ (l.op = "cursor" /\ is_init(l.pre) /\ l.pre.lazy = 0) =>
                   /\ Connects(l.calls) <= 1
                   /\ (lazy[t] # 0 \/ l.raised = "None") =>
                          /\ Connects(l.calls) = 1
                          /\ lazy[t] = Len(conns)
                          /\ conns[lazy[t]].closes = 0
            /\ (l.op = "cursor" /\ l.pre.lazy # 0) =>
                   Connects(l.calls) = 0 /\ lazy[t] = l.pre.lazy
            /\ l.pre.lazy # 0 =>
                   \/ lazy[t] = l.pre.lazy
                   \/ lazy[t] = 0 /\ Called(l.calls, "close")

\* C6 witness: a later cursor() call returned a cursor on the raw connection
\* an earlier call had opened
C6_Witness ==
    \E t \in DOMAIN last :
        /\ last[t].op = "cursor"
        /\ last[t].pre.lazy # 0
        /\ last[t].raised = "None"
        /\ lazy[t] = last[t].pre.lazy

\* C7: entering a connection scope or a transaction scope calls nothing on
\* the driver and never fails; after an entry that initialized the context
\* the raw connection is None, and it stays None over every operation that
\* requests no cursor (all but cursor() and _update); a factory failure is
\* seen by the caller of such an operation only.
C7_LazyUntilCursor ==
    \A t \in DOMAIN last :
        LET l == last[t]
        IN  /\ l.op \in {"connection_enter", "transaction_enter"} =>
                   /\ l.calls = <<>>
                   /\ l.raised = "None"
                   /\ l.flag => lazy[t] = 0
            /\ (l.op \notin {"cursor", "update"} /\ l.pre.lazy = 0) => lazy[t] = 0
            /\ l.op \notin {"cursor", "update"} =>
                   ~Called(l.calls, "connect") /\ l.raised # "ConnectError"

\* C7 witness: inside a scope that was entered without an error, the
\* factory failed at the cursor() call
C7_Witness ==
    \E t \in DOMAIN last :
        /\ stack[t] # <<>>
        /\ last[t].op = "cursor"
        /\ last[t].raised = "ConnectError"
        /\ lazy[t] = 0

\* C8: after the exit of a transaction scope that was entered while no scope
\* was active, the depth is 0, the context is uninitialized and the raw
\* connection opened inside the scope has been closed exactly once.
C8_OutermostExitReleases ==
    \A t \in DOMAIN last :
        (last[t].op = "transaction_exit" /\ stack[t] = <<>>) =>
            /\ transactions[t] = 0
            /\ connection[t] = 0
            /\ last[t].pre.lazy # 0 => conns[last[t].pre.lazy].closes = 1

\* C9: in the exit of a transaction scope every commit and rollback call
\* comes before the close call, and a raw connection is closed only by an
\* exit at depth 0 that has called commit or rollback on it first.
C9_FinalizeBeforeClose ==
    \A t \in DOMAIN last :
        LET l == last[t]
        IN  l.op = "transaction_exit" =>
                /\ \A i, j \in 1..Len(l.calls) :
                       (IsFinalization(l.calls[i]) /\ l.calls[j].call = "close") => i < j
                /\ Called(l.calls, "close") =>
                       /\ l.pre.transactions = 1
                       /\ l.calls[Len(l.calls)].call = "close"
                       /\ Len(Finalization(l.calls)) >= 1

\* C9 witness: one exit rolled the transaction back and then closed the connection
C9_Witness ==
    \E t \in DOMAIN last :
        /\ TxExited(t, 1)
        /\ Names(last[t].calls) = <<"rollback", "close">>

\* C10: the transaction depth is never negative, and while it is positive
\* the context's connection is not None.
C10_DepthImpliesConnection ==
    \A t \in DOMAIN transactions :
        /\ transactions[t] >= 0
        /\ transactions[t] > 0 => connection[t] # 0

\* C10 witness: an inner transaction scope has exited, leaving depth 1, in a
\* context whose earlier exit failed to close its raw connection
C10_Witness ==
    \E t \in DOMAIN last :
        /\ TxExited(t, 2)
        /\ transactions[t] = 1
        /\ connection[t] # 0
        /\ \E i \in 1..Len(conns) : conns[i].owner = t /\ conns[i].closes = 1
        /\ lazy[t] = 0
        /\ nlazy = 1

\* C11: a second cleanup is a no-op at both levels: _LazyConnection.cleanup
\* on a lazy connection that holds no raw connection, and _DbCtx.cleanup on a
\* context that was initialized and cleaned up, each leave the context as it
\* was, close nothing and do not fail.
C11_CleanupIdempotent ==
    \A t \in DOMAIN last :
        LET l == last[t]
        IN  /\ (l.op = "lazy_cleanup" /\ l.pre.lazy = 0) =>
                   l.raised = "None" /\ Ctx(t) = l.pre /\ l.calls = <<>>
            /\ (l.op = "cleanup" /\ l.pre.connection = 0 /\ nlazy > 0) =>
                   l.raised = "None" /\ Ctx(t) = l.pre /\ l.calls = <<>>

\* C12: a create_engine call that follows a create_engine call which
\* returned without an error fails and leaves the engine as it was.
C12_EngineInitializedOnce ==
    [][\A t \in DOMAIN last : \A db_type \in DbTypes :
           (/\ last[t].op = "create_engine"
            /\ last[t].raised = "None"
            /\ CreateEngine(t, db_type)) =>
               /\ last'[t].raised # "None"
               /\ engine' = engine]_vars

\* C13: a cursor() call in which the factory fails raises the factory's
\* failure to its caller, leaves the raw connection None and produces no
\* connection; the next cursor() call in that context invokes the factory
\* again, and when the factory and the driver then succeed it returns a
\* cursor on a new raw connection.
C13_FactoryFailureIsRetryable ==
    /\ [](\A t \in DOMAIN last :
            (last[t].op = "cursor" /\ Failed(last[t].calls, "connect")) =>
                /\ last[t].raised = "ConnectError"
                /\ lazy[t] = 0
                /\ last[t].pre.lazy = 0
                /\ \A i \in 1..Len(conns) : conns[i].owner = t => conns[i].closes > 0)
    /\ [][\A t \in DOMAIN last : \A connectFails \in BOOLEAN, cursorFails \in BOOLEAN :
            (/\ last[t].op = "cursor"
             /\ last[t].raised = "ConnectError"
             /\ Cursor(t, connectFails, cursorFails)) =>
                /\ Connects(last'[t].calls) = 1
                /\ (~connectFails /\ ~cursorFails) =>
                       /\ last'[t].raised = "None"
                       /\ lazy'[t] = Len(conns) + 1]_vars

\* C13 witness: the factory failed in a cursor() call made inside a
\* transaction, and the raw connection is still None
C13_Witness ==
    \E t \in DOMAIN last :
        /\ last[t].op = "cursor"
        /\ Failed(last[t].calls, "connect")
        /\ transactions[t] > 0
        /\ lazy[t] = 0

\* C20: _update calls commit only at transaction depth 0, and at depth 0 it
\* calls commit whenever its statement was executed; it never rolls back; so
\* no operation other than the exit of the outermost transaction scope makes
\* a commit call while a transaction is open.
C20_UpdateCommitsOutsideTransaction ==
    \A t \in DOMAIN last :
        LET l == last[t]
            executed == \E i \in 1..Len(l.calls) : l.calls[i].call = "execute" /\ l.calls[i].ok
        IN  /\ l.op = "update" =>
                /\ Called(l.calls, "commit") <=> (transactions[t] = 0 /\ executed)
                /\ ~Called(l.calls, "rollback")
                /\ transactions[t] = l.pre.transactions
            /\ (l.op # "transaction_exit" /\ transactions[t] > 0) => ~Called(l.calls, "commit")

\* C20 witness: inside a transaction _update executed its statement and
\* made no commit call
C20_Witness ==
    \E t \in DOMAIN last :
        /\ last[t].op = "update"
        /\ transactions[t] > 0
        /\ \E i \in 1..Len(last[t].calls) : last[t].calls[i].call = "execute" /\ last[t].calls[i].ok
        /\ ~Called(last[t].calls, "commit")

\* what thread t holds: its lazy connection, its depth, its raw connection,
\* its open scopes and the outcome of its last operation
Own(t) == <<connection[t], transactions[t], lazy[t], stack[t], last[t]>>

\* C14: two threads never hold the same lazy connection or the same raw
\* connection, a thread's raw connection is one it opened itself, and an
\* operation of one thread leaves what every other thread holds, and the
\* raw connection of every other thread, as they were.
C14_ThreadIsolation ==
    /\ [](\A t \in DOMAIN stack : \A u \in DOMAIN stack \ {t} :
            /\ connection[t] # 0 => connection[t] # connection[u]
            /\ lazy[t] # 0 => lazy[t] # lazy[u] /\ conns[lazy[t]].owner = t)
    /\ [][\A t \in DOMAIN stack :
            (\/ TxEnter(t)
             \/ Cursor(t, FALSE, FALSE) \/ Cursor(t, FALSE, TRUE) \/ Cursor(t, TRUE, FALSE)
             \/ \E exctype \in Outcomes, commitFails \in BOOLEAN,
                   rollbackFails \in BOOLEAN, closeFails \in BOOLEAN :
                    TxExit(t, exctype, commitFails, rollbackFails, closeFails))
            => \A u \in DOMAIN stack \ {t} :
                   /\ Own(u)' = Own(u)
                   /\ lazy[u] # 0 => conns'[lazy[u]] = conns[lazy[u]]]_vars

\* C14 witness: both threads are inside a transaction of their own, each
\* with a raw connection it opened
C14_Witness ==
    /\ transactions["t1"] > 0 /\ transactions["t2"] > 0
    /\ lazy["t1"] # 0 /\ lazy["t2"] # 0
    /\ lazy["t1"] # lazy["t2"]
    /\ last["t1"].op = "cursor" /\ last["t2"].op = "cursor"

\* the raw connections thread t opened on which close() was not called yet
OpenRaw(t) == {i \in 1..Len(conns) : conns[i].owner = t /\ conns[i].closes = 0}

\* C15: a thread has at most one raw connection on which close() was not
\* called, and it is the one its lazy connection holds; the raw connection
\* a lazy connection holds was not closed, and none is closed twice.
C15_OneOpenRawConnection ==
    \A t \in DOMAIN lazy :
        /\ Cardinality(OpenRaw(t)) <= 1
        /\ OpenRaw(t) = IF lazy[t] = 0 THEN {} ELSE {lazy[t]}
        /\ \A i \in 1..Len(conns) : conns[i].closes <= 1

\* C15 witness: after a first raw connection was closed the thread holds a
\* second one
C15_Witness ==
    \E t \in DOMAIN lazy :
        /\ Len(conns) = 2
        /\ conns[1].owner = t /\ conns[1].closes = 1
        /\ lazy[t] = 2

\* C16: when the exit of the outermost transaction scope calls commit or
\* rollback on the lazy connection, the raw connection is not None, and the
\* exit does not fail for a missing raw connection.
C16_ConnectedAtFinalization ==
    \A t \in DOMAIN last :
        TxExited(t, 1) => last[t].pre.lazy # 0 /\ last[t].raised # "AttributeError"

\* the scope record of a connection scope that initialized the context
OwningConnectionScope == [kind |-> "connection", flag |-> TRUE]

\* C17: a transaction scope entered directly inside a connection scope that
\* initialized the context keeps the lazy connection and its raw connection
\* and does not own the context; its exit finalizes the transaction and does
\* not close or drop the connection; the exit of the enclosing connection
\* scope then uninitializes the context and closes the raw connection.
C17_TransactionInsideConnectionScope ==
    /\ [](\A t \in DOMAIN last :
            LET l == last[t]
            IN  /\ (l.op = "transaction_enter" /\ Len(stack[t]) = 2
                                               /\ stack[t][1] = OwningConnectionScope) =>
                       /\ ~l.flag
                       /\ connection[t] = l.pre.connection /\ lazy[t] = l.pre.lazy
                       /\ transactions[t] = 1
                /\ (l.op = "transaction_exit" /\ stack[t] = <<OwningConnectionScope>>) =>
                       /\ ~l.flag
                       /\ l.pre.lazy # 0 => Finalization(l.calls) # <<>>
                       /\ ~Called(l.calls, "close")
                       /\ connection[t] = l.pre.connection /\ lazy[t] = l.pre.lazy
                       /\ transactions[t] = 0)
    /\ [][\A t \in DOMAIN last : \A exctype \in Outcomes :
            (/\ last[t].op = "transaction_exit"
             /\ stack[t] = <<OwningConnectionScope>>
             /\ ConnExit(t, exctype)) =>
                /\ connection'[t] = 0
                /\ lazy[t] # 0 => conns'[lazy[t]].closes = 1]_vars

\* C18: the exit of a transaction scope at depth greater than 1 lowers the
\* depth by one and changes nothing else: the lazy connection and its raw
\* connection are the same, no call reaches the driver, the context is
\* still initialized, and the caller sees the outcome of the enclosed work.
C18_InnerExitChangesDepthOnly ==
    \A t \in DOMAIN last :
        LET l == last[t]
        IN  (l.op = "transaction_exit" /\ l.pre.transactions > 1) =>
                /\ transactions[t] = l.pre.transactions - 1
                /\ connection[t] = l.pre.connection /\ lazy[t] = l.pre.lazy
                /\ is_init(Ctx(t))
                /\ l.calls = <<>>
                /\ lazy[t] # 0 => conns[lazy[t]].closes = 0
                /\ l.raised = l.exc

\* C18 witness: an inner transaction scope was left, after an error of its
\* body, with the raw connection open
C18_Witness ==
    \E t \in DOMAIN last :
        /\ last[t].op = "transaction_exit"
        /\ last[t].pre.transactions = 2
        /\ last[t].exc # "None"
        /\ lazy[t] # 0

\* C19: when close() fails in the exit of a transaction scope, the caller
\* does not see the close failure but what it would have seen without it
\* (the failure of the finalization, else the outcome of the enclosed
\* work), and the context is uninitialized after the exit.
C19_CloseFailureNotRaised ==
    \A t \in DOMAIN last :
        LET l == last[t]
            f == Finalization(l.calls)
        IN  (l.op = "transaction_exit" /\ Failed(l.calls, "close")) =>
                /\ l.raised # "CloseError"
                /\ (f # <<>> /\ f[Len(f)].ok) => l.raised = l.exc
                /\ connection[t] = 0

====
